---------------------------- MODULE Spec2Model ----------------------------
(***************************************************************************)
(* Model of src/app.py: the sentiment pipeline behind the "Process and     *)
(* Generate Articles" button.                                              *)
(*                                                                         *)
(*   uploads -> load -> process_reviews -> calculate_average_scores        *)
(*           -> for each category: heading, top/bottom selection,          *)
(*              one text-generation request, article                       *)
(*                                                                         *)
(* Data frames are objects on a heap, so that in-place mutation and        *)
(* rebinding of the name df are distinguishable.  The column reviews.text  *)
(* is called reviews_text; the text of a review is identified by the       *)
(* number of its line in the uploaded file.                                *)
(*                                                                         *)
(* The data-frame library is modelled by its documented behaviour:         *)
(*   - groupby leaves out the rows that miss a key and sorts the groups;   *)
(*   - mean, sum and count pass over missing values, and the mean of no    *)
(*     value is missing;                                                   *)
(*   - merge is an inner join unless told otherwise;                       *)
(*   - nlargest and nsmallest keep the first of equal values               *)
(*     (keep='first') and put the rows without a value last.               *)
(* A float mean is kept as an exact reduced fraction, 0/0 being NaN.       *)
(* Rounding is not modelled: the grouped mean is a compensated sum over    *)
(* the count, which gives back v for the mean of copies of v.              *)
(***************************************************************************)
EXTENDS Integers, Sequences, FiniteSets, TLC

\* ------------------------------------------------------------------ bounds
\* Longest uploaded table over the mixed rows (missing keys, unknown labels).
MaxRows == 2
\* Longest uploaded table over the single-category ranking rows.
MaxRankRows == 4

\* ---------------------------------------------------------------- values
\* A missing cell of a string column (an empty CSV cell read by read_csv).
NaN == "NaN"
\* The float NaN that Series.map leaves for a label with no entry.
ScoreNaN == -1

\* Lexicographic order of the strings used as product and category names.
Ord == [A |-> 1, B |-> 2, C |-> 3, D |-> 4, c1 |-> 1, c2 |-> 2]

UnknownLabel == "mixed"
MixedRows == [cluster_name : {"c1", "c2", NaN}, name : {"A", "B", NaN},
              label : {"neutral", UnknownLabel}]
\* One category of four products; two of them have unfavourable reviews too.
RankRows == [cluster_name : {"c1"}, name : {"A", "B", "C", "D"}, label : {"positive"}]
            \cup [cluster_name : {"c1"}, name : {"A", "C"}, label : {"negative"}]

SeqsUpTo(S, n) == UNION {[1..k -> S] : k \in 0..n}

\* The uploads the button handler may be given: each line is a review with
\* its category, its product and the label the uploaded model predicts for it.
Uploads == SeqsUpTo(MixedRows, MaxRows) \cup SeqsUpTo(RankRows, MaxRankRows)

\* ------------------------------------------------------------- fractions
RECURSIVE Gcd(_, _)
Gcd(a, b) == IF b = 0 THEN a ELSE Gcd(b, a % b)

Frac(s, n) == IF n = 0 THEN [num |-> 0, den |-> 0]
              ELSE [num |-> s \div Gcd(s, n), den |-> n \div Gcd(s, n)]
IsNaN(f) == f.den = 0
FracAdd(a, b) == Frac(a.num * b.den + b.num * a.den, a.den * b.den)
FracDiv(a, k) == Frac(a.num, a.den * k)
\* IEEE comparisons: every comparison with NaN is false.
FracLt(a, b) == ~IsNaN(a) /\ ~IsNaN(b) /\ a.num * b.den < b.num * a.den
FracLe(a, b) == ~IsNaN(a) /\ ~IsNaN(b) /\ a.num * b.den <= b.num * a.den

\* ------------------------------------------------------------ sequences
RECURSIVE Unique(_)
Unique(s) ==
    IF s = <<>> THEN <<>>
    ELSE LET rest == Unique(SubSeq(s, 1, Len(s) - 1))
             x == s[Len(s)]
         IN IF \E i \in 1..Len(rest) : rest[i] = x THEN rest ELSE Append(rest, x)

Column(rows, col) == [i \in 1..Len(rows) |-> rows[i][col]]
HeadN(s, n) == SubSeq(s, 1, IF Len(s) < n THEN Len(s) ELSE n)

\* Series.mean() of integer scores: missing values are skipped.
RECURSIVE ScoreSum(_)
ScoreSum(s) == IF s = <<>> THEN 0 ELSE Head(s) + ScoreSum(Tail(s))
\* A mean whose count takes in the rows without a score.
ScoreMeanCountAll(scores) ==
    LET present == SelectSeq(scores, LAMBDA v : v # ScoreNaN)
    IN Frac(ScoreSum(present), Len(scores))
ScoreMean(scores) ==
    LET present == SelectSeq(scores, LAMBDA v : v # ScoreNaN)
    IN Frac(ScoreSum(present), Len(present))

\* Series.mean() of float means: missing values are skipped.
RECURSIVE FracSum(_)
FracSum(s) == IF s = <<>> THEN Frac(0, 1) ELSE FracAdd(Head(s), FracSum(Tail(s)))
FracMean(vals) ==
    LET present == SelectSeq(vals, LAMBDA v : ~IsNaN(v))
    IN IF present = <<>> THEN Frac(0, 0) ELSE FracDiv(FracSum(present), Len(present))

\* ------------------------------------------------------ data-frame calls
\* The fixed mapping of process_reviews; Series.map leaves NaN elsewhere.
ScoreMap == [positive |-> 2, neutral |-> 1, negative |-> 0]
MapLabel(l) == IF l \in DOMAIN ScoreMap THEN ScoreMap[l] ELSE ScoreNaN

\* df[col] = values : the column is added to (or replaced in) the frame t.
SetColumn(t, col, values) ==
    [columns |-> t.columns \cup {col},
     rows |-> [i \in 1..Len(t.rows) |->
                 [c \in (DOMAIN t.rows[i]) \cup {col} |->
                     IF c = col THEN values[i] ELSE t.rows[i][c]]]]

\* The frame that process_reviews leaves behind in the object it was given.
process_reviews(t, predict) ==
    LET X == Column(t.rows, "reviews_text")
        labelled == SetColumn(t, "sentiment", [i \in 1..Len(X) |-> predict[X[i]]])
    IN SetColumn(labelled, "sentiment_score",
                 [i \in 1..Len(X) |-> MapLabel(labelled.rows[i].sentiment)])

\* groupby drops the rows that miss a key (dropna=True) and sorts the groups.
KeyOf(r) == <<r.cluster_name, r.name>>
GroupKeys(rows) ==
    {KeyOf(rows[i]) : i \in {j \in 1..Len(rows) :
        rows[j].cluster_name # NaN /\ rows[j].name # NaN}}
KeyLt(a, b) == \/ Ord[a[1]] < Ord[b[1]]
               \/ a[1] = b[1] /\ Ord[a[2]] < Ord[b[2]]
RECURSIVE SortKeys(_)
SortKeys(K) ==
    IF K = {} THEN <<>>
    ELSE LET m == CHOOSE k \in K : \A o \in K \ {k} : KeyLt(k, o)
         IN <<m>> \o SortKeys(K \ {m})

\* df.groupby(['cluster_name', 'name'])['sentiment_score'].mean().reset_index()
GroupMeans(rows) ==
    LET keys == SortKeys(GroupKeys(rows))
    IN [g \in 1..Len(keys) |->
          [cluster_name |-> keys[g][1], name |-> keys[g][2],
           sentiment_score |->
              ScoreMean(Column(SelectSeq(rows, LAMBDA r : KeyOf(r) = keys[g]),
                               "sentiment_score"))]]

\* The rows one left row contributes to an inner merge on the two keys: one
\* per matching right row, the right value under the suffixed name.
Joined(l, r) ==
    [c \in (DOMAIN l) \cup {"sentiment_score_avg"} |->
        IF c = "sentiment_score_avg" THEN r.sentiment_score ELSE l[c]]
Matches(l, right) ==
    LET hits == SelectSeq(right, LAMBDA r : KeyOf(r) = KeyOf(l))
    IN [k \in 1..Len(hits) |-> Joined(l, hits[k])]

RECURSIVE MergeRows(_, _)
MergeRows(left, right) ==
    IF left = <<>> THEN <<>>
    ELSE Matches(Head(left), right) \o MergeRows(Tail(left), right)

\* The new frame calculate_average_scores returns.
calculate_average_scores(t) ==
    LET product_scores == GroupMeans(t.rows)
    IN [columns |-> t.columns \cup {"sentiment_score_avg"},
        rows |-> MergeRows(t.rows, product_scores)]

\* ---------------------------------------------------- category selection
\* The categories in sorted order instead of order of appearance.
CategoriesSorted(t) ==
    LET S == {t.rows[i].cluster_name : i \in 1..Len(t.rows)}
    IN IF S = {} THEN <<>>
       ELSE IF Cardinality(S) = 1 THEN <<CHOOSE c \in S : TRUE>>
       ELSE <<CHOOSE c \in S : \A o \in S \ {c} : Ord[c] < Ord[o],
              CHOOSE c \in S : \A o \in S \ {c} : Ord[o] < Ord[c]>>
\* df['cluster_name'].unique(), in order of first appearance.
Categories(t) == Unique(Column(t.rows, "cluster_name"))
CategoryDf(t, category) == SelectSeq(t.rows, LAMBDA r : r.cluster_name = category)

RECURSIVE SortNames(_)
SortNames(N) ==
    IF N = {} THEN <<>>
    ELSE LET m == CHOOSE n \in N : \A o \in N \ {n} : Ord[n] < Ord[o]
         IN <<m>> \o SortNames(N \ {m})

\* The grouping with sort=False: the products in order of appearance.
ProductSentimentsUnsorted(category_df) ==
    LET names == Unique(Column(category_df, "name"))
    IN [g \in 1..Len(names) |->
          [name |-> names[g],
           sentiment_score_avg |->
              FracMean(Column(SelectSeq(category_df, LAMBDA r : r.name = names[g]),
                              "sentiment_score_avg"))]]
\* category_df.groupby('name')['sentiment_score_avg'].mean().reset_index()
ProductSentiments(category_df) ==
    LET names == SortNames({category_df[i].name : i \in 1..Len(category_df)} \ {NaN})
    IN [g \in 1..Len(names) |->
          [name |-> names[g],
           sentiment_score_avg |->
              FracMean(Column(SelectSeq(category_df, LAMBDA r : r.name = names[g]),
                              "sentiment_score_avg"))]]

\* Does row x come strictly before row y in the requested order of value?
Before(x, y, descending) ==
    IF descending THEN FracLt(y.sentiment_score_avg, x.sentiment_score_avg)
    ELSE FracLt(x.sentiment_score_avg, y.sentiment_score_avg)

\* Stable insertion of x behind every element that does not come after it.
RECURSIVE InsertStable(_, _, _)
InsertStable(x, sorted, descending) ==
    IF sorted = <<>> THEN <<x>>
    ELSE IF Before(x, Head(sorted), descending) THEN <<x>> \o sorted
    ELSE <<Head(sorted)>> \o InsertStable(x, Tail(sorted), descending)
RECURSIVE StableSort(_, _)
StableSort(s, descending) ==
    IF s = <<>> THEN <<>>
    ELSE InsertStable(s[Len(s)], StableSort(SubSeq(s, 1, Len(s) - 1), descending),
                      descending)

\* DataFrame.nlargest(n, col) / nsmallest(n, col) with keep='first': the
\* rows with a value in order of value, equal values in frame order, then the
\* rows without a value; the first n of these.
SelectN(n, frame, descending) ==
    LET valued == SelectSeq(frame, LAMBDA r : ~IsNaN(r.sentiment_score_avg))
        missing == SelectSeq(frame, LAMBDA r : IsNaN(r.sentiment_score_avg))
    IN HeadN(StableSort(valued, descending) \o missing, n)
\* The selections with the direction of the order mistaken.
nlargest_ascending(n, frame) == SelectN(n, frame, FALSE)
nsmallest_descending(n, frame) == SelectN(n, frame, TRUE)
nlargest(n, frame) == SelectN(n, frame, TRUE)
nsmallest(n, frame) == SelectN(n, frame, FALSE)

TopN == 3
MaxReviews == 5
TopProducts(t, category) ==
    Column(nlargest(TopN, ProductSentiments(CategoryDf(t, category))), "name")
BottomProduct(t, category) ==
    Column(nsmallest(1, ProductSentiments(CategoryDf(t, category))), "name")[1]
TopReviews(t, category) ==
    LET top == TopProducts(t, category)
    IN Column(SelectSeq(CategoryDf(t, category),
                     LAMBDA r : \E i \in 1..Len(top) : top[i] = r.name),
              "reviews_text")

\* The arguments of generate_article, which the prompt is built from.
Prompt(t, category) ==
    [category_name |-> category,
     top_products |-> TopProducts(t, category),
     bottom_product |-> BottomProduct(t, category),
     reviews |-> HeadN(TopReviews(t, category), MaxReviews)]

\* ------------------------------------------------------------------ state
VARIABLES
    uploaded_data,        \* st.file_uploader results: is a file there?
    uploaded_model,
    uploaded_vectorizer,
    pickled_vectorizer,   \* does the uploaded model object have .vectorizer?
    pc,                   \* position of the button handler
    heap,                 \* the DataFrame objects created so far
    df,                   \* the object the name df is bound to (0: unbound)
    svm_model,            \* <<>> or <<the loaded model>>
    vectorizer,           \* where load_vectorizer took the vectorizer from
    idx,                  \* position of the category loop
    calls,                \* the text-generation requests made, with outcome
    out,                  \* what the page displays, in order
    files_read,           \* the uploads that have been deserialised
    predict_calls,        \* number of model.predict invocations
    aggregations,         \* number of calculate_average_scores invocations
    process_arg           \* <<>> or <<the object process_reviews was given,
                          \*           with its value at the call>>

vars == <<uploaded_data, uploaded_model, uploaded_vectorizer, pickled_vectorizer,
          pc, heap, df, svm_model, vectorizer, idx, calls, out, files_read,
          predict_calls, aggregations, process_arg>>

inputs == <<uploaded_data, uploaded_model, uploaded_vectorizer, pickled_vectorizer>>

Show(kind, about) == [kind |-> kind, about |-> about]

Init ==
    /\ uploaded_data \in BOOLEAN
    /\ uploaded_model \in BOOLEAN
    /\ uploaded_vectorizer \in BOOLEAN
    /\ pickled_vectorizer \in {b \in BOOLEAN : b => uploaded_model}
    /\ pc = "idle"
    /\ heap = <<>>
    /\ df = 0
    /\ svm_model = <<>>
    /\ vectorizer = "none"
    /\ idx = 0
    /\ calls = <<>>
    /\ out = <<>>
    /\ files_read = {}
    /\ predict_calls = 0
    /\ aggregations = 0
    /\ process_arg = <<>>

\* The condition that lets the model's own vectorizer stand in for the upload.
AllUploadedOrPickled ==
    uploaded_data /\ uploaded_model /\ (uploaded_vectorizer \/ pickled_vectorizer)
\* Is every upload there?  (the condition of the handler's inner if)
AllUploaded == uploaded_data /\ uploaded_model /\ uploaded_vectorizer

\* The button is pressed with every upload present: the try block is entered.
ButtonPressed ==
    /\ pc = "idle"
    /\ AllUploaded
    /\ pc' = "load"
    /\ UNCHANGED <<inputs, heap, df, svm_model, vectorizer, idx, calls, out,
                   files_read, predict_calls, aggregations, process_arg>>

\* The button is pressed with an upload missing: the else branch.
ButtonWarning ==
    /\ pc = "idle"
    /\ ~AllUploaded
    /\ out' = Append(out, Show("warning", "Please upload all required files."))
    /\ pc' = "done"
    /\ UNCHANGED <<inputs, heap, df, svm_model, vectorizer, idx, calls,
                   files_read, predict_calls, aggregations, process_arg>>

\* Where load_vectorizer takes the vectorizer from.
load_vectorizer(model) == IF model.has_vectorizer THEN "model.vectorizer" ELSE "file"

\* load_data, load_model, load_vectorizer: the uploaded table becomes a new
\* frame, the model one that predicts the table's labels.
LoadFiles ==
    /\ pc = "load"
    /\ \E upload \in Uploads :
        LET model == [has_vectorizer |-> pickled_vectorizer,
                      predict |-> [i \in 1..Len(upload) |-> upload[i].label]]
        IN /\ heap' = Append(heap,
                 [columns |-> {"reviews_text", "name", "cluster_name"},
                  rows |-> [i \in 1..Len(upload) |->
                              [reviews_text |-> i, name |-> upload[i].name,
                               cluster_name |-> upload[i].cluster_name]]])
           /\ df' = Len(heap) + 1
           /\ svm_model' = <<model>>
           /\ vectorizer' = load_vectorizer(model)
           /\ files_read' = files_read \cup {"data", "model"} \cup
                 (IF load_vectorizer(model) = "file" THEN {"vectorizer"} ELSE {})
    /\ pc' = "process"
    /\ UNCHANGED <<inputs, idx, calls, out, predict_calls, aggregations, process_arg>>

\* df = process_reviews(df, vectorizer, svm_model): the frame is changed in
\* place and the same object is returned.
ProcessReviews ==
    /\ pc = "process"
    /\ process_arg' = <<[obj |-> df, before |-> heap[df]]>>
    /\ heap' = [heap EXCEPT ![df] = process_reviews(heap[df], svm_model[1].predict)]
    /\ df' = df
    /\ predict_calls' = predict_calls + 1
    /\ pc' = "aggregate"
    /\ UNCHANGED <<inputs, svm_model, vectorizer, idx, calls, out, files_read,
                   aggregations>>

\* df = calculate_average_scores(df): merge returns a new frame.
CalculateAverageScores ==
    /\ pc = "aggregate"
    /\ heap' = Append(heap, calculate_average_scores(heap[df]))
    /\ df' = Len(heap) + 1
    /\ aggregations' = aggregations + 1
    /\ idx' = 1
    /\ pc' = "loop"
    /\ UNCHANGED <<inputs, svm_model, vectorizer, calls, out, files_read,
                   predict_calls, process_arg>>

\* One pass of the loop up to the call of openai.Completion.create: the
\* heading is shown, the products are selected, the request is sent.
NextCategory ==
    /\ pc = "loop"
    /\ idx <= Len(Categories(heap[df]))
    /\ LET category == Categories(heap[df])[idx]
       IN /\ out' = Append(out, Show("subheader", category))
          /\ calls' = Append(calls, [prompt |-> Prompt(heap[df], category),
                                     status |-> "pending"])
    /\ pc' = "generate"
    /\ UNCHANGED <<inputs, heap, df, svm_model, vectorizer, idx, files_read,
                   predict_calls, aggregations, process_arg>>

\* The completion arrives: the article and the rule are shown, the loop
\* moves on.
GenerateReturn ==
    /\ pc = "generate"
    /\ calls' = [calls EXCEPT ![Len(calls)].status = "returned"]
    /\ out' = out \o <<Show("write", calls[Len(calls)].prompt.category_name),
                       Show("markdown", "---")>>
    /\ idx' = idx + 1
    /\ pc' = "loop"
    /\ UNCHANGED <<inputs, heap, df, svm_model, vectorizer, files_read,
                   predict_calls, aggregations, process_arg>>

\* An except clause inside the loop: the error is shown and the loop goes on.
GenerateFailContinue ==
    /\ pc = "generate"
    /\ calls' = [calls EXCEPT ![Len(calls)].status = "failed"]
    /\ out' = Append(out, Show("error", "Error"))
    /\ idx' = idx + 1
    /\ pc' = "loop"
    /\ UNCHANGED <<inputs, heap, df, svm_model, vectorizer, files_read,
                   predict_calls, aggregations, process_arg>>

\* The completion call raises: the except clause shows the error and the
\* handler ends.
GenerateFail ==
    /\ pc = "generate"
    /\ calls' = [calls EXCEPT ![Len(calls)].status = "failed"]
    /\ out' = Append(out, Show("error", "Error"))
    /\ pc' = "done"
    /\ UNCHANGED <<inputs, heap, df, svm_model, vectorizer, idx, files_read,
                   predict_calls, aggregations, process_arg>>

\* The loop has no category left: the handler ends.
LoopEnd ==
    /\ pc = "loop"
    /\ idx > Len(Categories(heap[df]))
    /\ pc' = "done"
    /\ UNCHANGED <<inputs, heap, df, svm_model, vectorizer, idx, calls, out,
                   files_read, predict_calls, aggregations, process_arg>>

Next ==
    \/ ButtonPressed
    \/ ButtonWarning
    \/ LoadFiles
    \/ ProcessReviews
    \/ CalculateAverageScores
    \/ NextCategory
    \/ GenerateReturn
    \/ GenerateFail
    \/ LoopEnd

Spec == Init /\ [][Next]_vars

\* ------------------------------------------------- vocabulary of the claims
\* The frame process_reviews was given, as it is now (it is the frame that
\* calculate_average_scores is given), and the frame the loop runs over.
Labelled == heap[process_arg[1].obj]
Averaged == heap[df]
Aggregated == aggregations > 0

\* The mean of the scores present in the rows J of frame t, computed over the
\* set of rows; with the library's convention that a missing score takes no
\* part in a sum or a count, and that the mean of no score is missing.
RECURSIVE SumOver(_, _)
SumOver(t, J) ==
    IF J = {} THEN 0
    ELSE LET j == CHOOSE x \in J : TRUE
         IN t.rows[j].sentiment_score + SumOver(t, J \ {j})
MeanOver(t, J) ==
    LET P == {j \in J : t.rows[j].sentiment_score # ScoreNaN}
    IN Frac(SumOver(t, P), Cardinality(P))
RowsOfKey(t, c, p) ==
    {j \in 1..Len(t.rows) : t.rows[j].cluster_name = c /\ t.rows[j].name = p}
ProductMean(c, p) == MeanOver(Labelled, RowsOfKey(Labelled, c, p))
ProductsOf(c) ==
    {Averaged.rows[i].name : i \in {j \in 1..Len(Averaged.rows) :
        Averaged.rows[j].cluster_name = c}}
\* a ranks at least as high as b; a product without a mean ranks last.
RanksGeq(a, b) == IsNaN(b) \/ FracLe(b, a)
Min(a, b) == IF a < b THEN a ELSE b
Elems(s) == {s[i] : i \in 1..Len(s)}

\* What a run that got through n categories has displayed.
RECURSIVE Displayed(_)
Displayed(n) ==
    IF n = 0 THEN <<>>
    ELSE Displayed(n - 1) \o
         <<Show("subheader", calls[n].prompt.category_name),
           Show("write", calls[n].prompt.category_name),
           Show("markdown", "---")>>

FirstIndex(t, c) ==
    CHOOSE i \in 1..Len(t.rows) :
        /\ t.rows[i].cluster_name = c
        /\ \A j \in 1..(i - 1) : t.rows[j].cluster_name # c

\* ------------------------------------------------------------------- C1
\* C1: after calculate_average_scores, every row of the returned frame
\* carries as sentiment_score_avg the sum of sentiment_score divided by the
\* count of sentiment_score over exactly the rows of the input frame that
\* have the row's (cluster_name, name); sum and count are the library's,
\* which pass over a missing score.
C1_AvgIsGroupMean ==
    Aggregated =>
        \A i \in 1..Len(Averaged.rows) :
            Averaged.rows[i].sentiment_score_avg =
                ProductMean(Averaged.rows[i].cluster_name, Averaged.rows[i].name)

\* A product with two reviews of scores 2 and 0, in that order: mean 1.
C1_Witness ==
    /\ Aggregated
    /\ Len(Averaged.rows) = 4
    /\ Averaged.rows[1].name = "A" /\ Averaged.rows[2].name = "A"
    /\ Averaged.rows[1].sentiment_score = 2 /\ Averaged.rows[2].sentiment_score = 0
    /\ Averaged.rows[3].name = "B" /\ Averaged.rows[4].name = "C"
    /\ Averaged.rows[1].sentiment_score_avg = Frac(1, 1)
    /\ Averaged.rows[3].sentiment_score_avg = Frac(2, 1)
    /\ Averaged.rows[4].sentiment_score_avg = Frac(0, 1)

\* ------------------------------------------------------------------- C2
\* C2: calculate_average_scores keeps the row count: every row of the input
\* frame, missing cluster_name or name included, is in the returned frame
\* exactly once.
C2_RowCountPreserved ==
    Aggregated =>
        /\ Len(Averaged.rows) = Len(Labelled.rows)
        /\ \A j \in 1..Len(Labelled.rows) :
              Cardinality({i \in 1..Len(Averaged.rows) :
                  Averaged.rows[i].reviews_text = Labelled.rows[j].reviews_text}) = 1

\* ------------------------------------------------------------------- C3
\* C3: every row's sentiment_score is in {0, 1, 2} and is the fixed mapping
\* of its label; no frame of the run ever holds a row with a label outside
\* the mapping and a missing score (the run raises instead).
C3_ScoreMappedOrRaised ==
    \A k \in 1..Len(heap) : \A i \in 1..Len(heap[k].rows) :
        "sentiment_score" \in DOMAIN heap[k].rows[i] =>
            /\ heap[k].rows[i].sentiment \in DOMAIN ScoreMap
            /\ heap[k].rows[i].sentiment_score \in {0, 1, 2}
            /\ heap[k].rows[i].sentiment_score = ScoreMap[heap[k].rows[i].sentiment]

\* ------------------------------------------------------------------- C4
\* C4: once the button is pressed with one of the three uploads absent, the
\* page shows the warning and nothing else, and nothing was read, predicted,
\* aggregated or requested; also when the model has its own vectorizer.
C4_MissingUploadOnlyWarns ==
    (pc # "idle" /\ ~(uploaded_data /\ uploaded_model /\ uploaded_vectorizer)) =>
        /\ pc = "done"
        /\ out = <<Show("warning", "Please upload all required files.")>>
        /\ files_read = {}
        /\ heap = <<>> /\ df = 0 /\ svm_model = <<>> /\ vectorizer = "none"
        /\ predict_calls = 0
        /\ aggregations = 0
        /\ calls = <<>>

\* The model has its own vectorizer and only the vectorizer upload is absent.
C4_Witness ==
    /\ pc = "done"
    /\ uploaded_data /\ uploaded_model /\ ~uploaded_vectorizer
    /\ pickled_vectorizer
    /\ out = <<Show("warning", "Please upload all required files.")>>

\* ------------------------------------------------------------------- C5
\* C5: when the request for the k-th category fails, it is the last request
\* (none for a later category, none again for the k-th), the run is over,
\* and the page shows what it showed for categories 1..k-1, the k-th
\* heading and one error message: no article for category k.
C5_FailureAborts ==
    \A k \in 1..Len(calls) :
        calls[k].status = "failed" =>
            /\ k = Len(calls)
            /\ pc = "done"
            /\ \A j \in 1..(k - 1) :
                  /\ calls[j].status = "returned"
                  /\ calls[j].prompt.category_name # calls[k].prompt.category_name
            /\ out = Displayed(k - 1) \o
                     <<Show("subheader", calls[k].prompt.category_name),
                       Show("error", "Error")>>

\* The request for the second category failed after the first returned.
C5_Witness ==
    /\ Len(calls) = 2
    /\ calls[1].status = "returned"
    /\ calls[2].status = "failed"
    /\ Len(out) = 5

\* ------------------------------------------------------------------- C6
\* C6: the requests are made for the distinct categories of the frame the
\* loop runs over, one each, in order of first appearance; a request is made
\* only when every earlier one has returned; a run that ends without
\* failure has requested every category and shows, per category in that
\* order, the heading and then the article of that category.
C6_OnePerCategoryInOrder ==
    Aggregated =>
        /\ \A k \in 1..Len(calls) :
              /\ calls[k].prompt.category_name \in Elems(Column(Averaged.rows, "cluster_name"))
              /\ \A j \in 1..(k - 1) :
                    /\ calls[j].status = "returned"
                    /\ calls[j].prompt.category_name # calls[k].prompt.category_name
                    /\ FirstIndex(Averaged, calls[j].prompt.category_name)
                         < FirstIndex(Averaged, calls[k].prompt.category_name)
              /\ \A c \in Elems(Column(Averaged.rows, "cluster_name")) :
                    FirstIndex(Averaged, c) < FirstIndex(Averaged, calls[k].prompt.category_name)
                        => \E j \in 1..(k - 1) : calls[j].prompt.category_name = c
              /\ calls[k].status = "pending" <=> (k = Len(calls) /\ pc = "generate")
        /\ (pc = "done" /\ \A k \in 1..Len(calls) : calls[k].status = "returned") =>
              /\ Elems(Column(Averaged.rows, "cluster_name"))
                    = {calls[k].prompt.category_name : k \in 1..Len(calls)}
              /\ out = Displayed(Len(calls))

\* Two categories, the one that sorts last first in the frame, both done.
C6_Witness ==
    /\ pc = "done"
    /\ Len(calls) = 2
    /\ calls[1].status = "returned" /\ calls[2].status = "returned"
    /\ calls[1].prompt.category_name = "c2"
    /\ calls[2].prompt.category_name = "c1"
    /\ Len(out) = 6

\* ------------------------------------------------------------------- C7
\* C7: top_products of a category with n products holds min(3, n) distinct
\* products of the category, in non-increasing order of mean score, and no
\* product left out has a higher mean than one chosen; a product without
\* any score ranks last.
C7_TopThree ==
    \A k \in 1..Len(calls) :
        LET c == calls[k].prompt.category_name
            top == calls[k].prompt.top_products
        IN /\ Len(top) = Min(TopN, Cardinality(ProductsOf(c)))
           /\ Cardinality(Elems(top)) = Len(top)
           /\ Elems(top) \subseteq ProductsOf(c)
           /\ \A i, j \in 1..Len(top) :
                 i < j => RanksGeq(ProductMean(c, top[i]), ProductMean(c, top[j]))
           /\ \A u \in ProductsOf(c) \ Elems(top) : \A i \in 1..Len(top) :
                 RanksGeq(ProductMean(c, top[i]), ProductMean(c, u))

\* Four products, the first by name with the lowest mean: it is left out.
C7_Witness ==
    /\ Len(calls) = 1
    /\ Cardinality(ProductsOf("c1")) = 4
    /\ calls[1].prompt.top_products = <<"B", "C", "D">>
    /\ FracLt(ProductMean("c1", "A"), ProductMean("c1", "D"))

\* ------------------------------------------------------------------- C8
\* C8: bottom_product is one product of the category and no product of the
\* category has a lower mean score; in a category of one product,
\* top_products is that product alone and bottom_product is the same.
C8_BottomOne ==
    \A k \in 1..Len(calls) :
        LET c == calls[k].prompt.category_name
            bottom == calls[k].prompt.bottom_product
        IN /\ bottom \in ProductsOf(c)
           /\ \A p \in ProductsOf(c) :
                 ~IsNaN(ProductMean(c, p)) => FracLe(ProductMean(c, bottom), ProductMean(c, p))
           /\ Cardinality(ProductsOf(c)) = 1 =>
                 calls[k].prompt.top_products = <<bottom>>

\* Three products, the last by name alone with the lowest mean.
C8_Witness ==
    /\ Len(calls) = 1
    /\ Cardinality(ProductsOf("c1")) = 3
    /\ calls[1].prompt.bottom_product = "C"
    /\ FracLt(ProductMean("c1", "C"), ProductMean("c1", "A"))
    /\ FracLt(ProductMean("c1", "C"), ProductMean("c1", "B"))

\* ------------------------------------------------------------------- C9
\* C9: process_reviews leaves the frame it was given as it was: the same
\* columns and the same values after the call as before it, the result
\* being another frame.
C9_ArgumentUntouched ==
    process_arg # <<>> =>
        /\ heap[process_arg[1].obj] = process_arg[1].before
        /\ (pc = "aggregate" => df # process_arg[1].obj)

\* ------------------------------------------------------------------ C10
\* C10: the selection does not depend on the order of the rows: the frame
\* with any two rows exchanged gives the same top_products and the same
\* bottom_product for the category; among products of equal mean the one
\* whose name sorts first comes first in top_products, and bottom_product
\* is the first by name of the products that share its mean.
SwapRows(t, i, j) ==
    [t EXCEPT !.rows = [k \in 1..Len(t.rows) |->
        IF k = i THEN t.rows[j] ELSE IF k = j THEN t.rows[i] ELSE t.rows[k]]]
Pipeline(t) == calculate_average_scores(process_reviews(t, svm_model[1].predict))

C10_SelectionOrderFree ==
    pc = "generate" =>
        LET c == calls[Len(calls)].prompt.category_name
            top == calls[Len(calls)].prompt.top_products
            bottom == calls[Len(calls)].prompt.bottom_product
            raw == process_arg[1].before
        IN /\ \A i, j \in 1..Len(raw.rows) :
                 i < j =>
                    LET swapped == Pipeline(SwapRows(raw, i, j))
                    IN /\ TopProducts(swapped, c) = top
                       /\ BottomProduct(swapped, c) = bottom
           /\ \A i, j \in 1..Len(top) :
                 (i < j /\ ProductMean(c, top[i]) = ProductMean(c, top[j]))
                    => Ord[top[i]] < Ord[top[j]]
           /\ \A p \in ProductsOf(c) \ {bottom} :
                 ProductMean(c, p) = ProductMean(c, bottom) => Ord[bottom] < Ord[p]

\* Two products of equal mean, the one that sorts first second in the frame.
C10_Witness ==
    /\ pc = "generate"
    /\ Len(Averaged.rows) = 2
    /\ Averaged.rows[1].name = "B" /\ Averaged.rows[2].name = "A"
    /\ Averaged.rows[1].sentiment_score_avg = Averaged.rows[2].sentiment_score_avg
    /\ calls[1].prompt.top_products = <<"A", "B">>
    /\ calls[1].prompt.bottom_product = "A"

=============================================================================
